---- MODULE Spec2Model ----
(***************************************************************************)
(* Orchestration core of gtm-agent: the executor's wave loop               *)
(* (src/src/agents/executor.py) and the orchestrator's Plan-Execute-Verify *)
(* loop (src/src/agents/orchestrator.py), with the verifier's score and    *)
(* decision derivation (src/src/agents/verifier.py).                       *)
(*                                                                         *)
(* Scores are integers in hundredths (0.80 is 80); times are seconds.      *)
(* Texts are abstracted to tokens: the text a step produces is the token   *)
(* of its step number, final_output is the sequence of its sections.       *)
(***************************************************************************)
EXTENDS Integers, Sequences, FiniteSets, TLC

\* ------------------------------------------------------------------ bounds

\* Step numbers a plan may use are 1..MaxStepNumber.
MaxStepNumber == 3

StepNumbers == 1..MaxStepNumber

\* Plans that use a step number twice have up to MaxDuplicatedPlanSteps
\* distinct step numbers.
MaxDuplicatedPlanSteps == 2

\* ----------------------------------------------------------------- helpers

Range(s) == {s[i] : i \in DOMAIN s}

MinOf(S) == CHOOSE m \in S : \A x \in S : m <= x

RECURSIVE SortedSeq(_)
\* sorted(keys): the elements of a set of integers in ascending order
SortedSeq(S) == IF S = {} THEN <<>> ELSE <<MinOf(S)>> \o SortedSeq(S \ {MinOf(S)})

\* All orders in which a set may be iterated.
Perms(S) ==
    {p \in [1..Cardinality(S) -> S] : \A i, j \in 1..Cardinality(S) : i # j => p[i] # p[j]}

\* None where a text or a number is expected, and None where an object is.
NoneValue == "None"

Null == [none |-> TRUE]

\* ------------------------------------------------------------ plans (models.py)

\* PlanStep: step_number and depends_on (tool, query and expected_output are
\* text that the wave loop never inspects).
PlanStep(n, deps) == [step_number |-> n, depends_on |-> deps]

\* An ExecutionPlan whose steps have the numbers S with dependencies d, in
\* ascending order of step_number. summary stands for the plan's summary text:
\* the number of the PEV iteration whose planner call produced it (0 outside
\* a PEV run).
PlanOf(S, d) ==
    LET ss == SortedSeq(S)
    IN  [summary |-> 0, steps |-> [i \in 1..Len(ss) |-> PlanStep(ss[i], d[ss[i]])]]

\* The plan with one more step of number n placed first: models.py does not
\* require the step numbers of a plan to be unique.
WithDuplicate(plan, n) == [plan EXCEPT !.steps = <<PlanStep(n, {})>> \o plan.steps]

PlanStepNumbers(plan) == {plan.steps[i].step_number : i \in DOMAIN plan.steps}

\* steps_by_number = {s.step_number: s for s in plan.steps}: the last step
\* of a number wins.
StepsByNumber(plan) ==
    [n \in PlanStepNumbers(plan) |->
        LET last == CHOOSE i \in DOMAIN plan.steps :
                        /\ plan.steps[i].step_number = n
                        /\ \A j \in DOMAIN plan.steps :
                               plan.steps[j].step_number = n => j <= i
        IN  plan.steps[last]]

\* --------------------------------------------------------- executor (pure)

COMPLETED == "completed"
FAILED == "failed"

\* How a step's capability call ends inside _execute_step.
StepOutcomes == {"ok", "timeout", "exception"}

\* ExecutorAgent._execute_step: the StepResult of one step.
ExecuteStepFailureAsCompleted(step, outcome) ==
    [step_number |-> step.step_number, status |-> COMPLETED,
     output |-> step.step_number, error |-> NoneValue]

ExecuteStep(step, outcome) ==
    IF outcome = "ok"
    THEN [step_number |-> step.step_number, status |-> COMPLETED,
          output |-> step.step_number, error |-> NoneValue]
    ELSE IF outcome = "timeout"
    THEN [step_number |-> step.step_number, status |-> FAILED,
          output |-> 0, error |-> "timed out"]
    ELSE [step_number |-> step.step_number, status |-> FAILED,
          output |-> 0, error |-> "exception"]

\* ExecutorAgent._get_ready_steps: the remaining steps whose every dependency
\* has a completed result.
GetReadyStepsIgnoringStatus(remaining, sbn, completed_results) ==
    {n \in remaining :
        \A dep \in sbn[n].depends_on : dep \in DOMAIN completed_results}

GetReadyStepsIgnoringDependencies(remaining, sbn, completed_results) == remaining

GetReadyStepsOneAtATime(remaining, sbn, completed_results) ==
    LET ready == {n \in remaining :
                    \A dep \in sbn[n].depends_on :
                        /\ dep \in DOMAIN completed_results
                        /\ completed_results[dep].status = COMPLETED}
    IN  IF ready = {} THEN {} ELSE {MinOf(ready)}

GetReadySteps(remaining, sbn, completed_results) ==
    {n \in remaining :
        \A dep \in sbn[n].depends_on :
            /\ dep \in DOMAIN completed_results
            /\ completed_results[dep].status = COMPLETED}

\* The section a completed step adds to all_outputs: (step_number, text).
Section(r) == [step_number |-> r.step_number, output |-> r.output]

\* The loop over zip(ready_steps, wave_results): all_outputs after the wave.
RECURSIVE AppendOutputs(_, _, _)
AppendOutputs(outs, order, results) ==
    IF order = <<>> THEN outs
    ELSE LET r == results[Head(order)]
         IN  AppendOutputs(IF r.status = COMPLETED THEN Append(outs, Section(r)) ELSE outs,
                           Tail(order), results)

\* all_outputs.sort(key=lambda x: x[0]): stable insertion by step number.
RECURSIVE InsertSorted(_, _)
InsertSorted(sorted, x) ==
    IF sorted = <<>> THEN <<x>>
    ELSE IF Head(sorted).step_number <= x.step_number
         THEN <<Head(sorted)>> \o InsertSorted(Tail(sorted), x)
         ELSE <<x>> \o sorted

SortOutputsUnsorted(outs) == outs

RECURSIVE SortOutputs(_)

SortOutputs(outs) ==
    IF outs = <<>> THEN <<>>
    ELSE InsertSorted(SortOutputs(SubSeq(outs, 1, Len(outs) - 1)), outs[Len(outs)])

\* The tail of execute_plan: the ExecutionResult built from what was collected.
BuildExecutionResult(plan, results, outs) ==
    LET nums == SortedSeq(DOMAIN results)
        sorted_results == [i \in 1..Len(nums) |-> results[nums[i]]]
    IN  [plan_summary |-> plan.summary,
         step_results |-> sorted_results,
         final_output |-> SortOutputs(outs),
         success |-> \A i \in 1..Len(nums) : sorted_results[i].status = COMPLETED]

EmptyResults == [n \in {} |-> NoneValue]

\* The wave loop of execute_plan run to its end, the capability call of step n
\* ending as outcomes[n]: each pass executes every ready step and records the
\* results; the loop ends when nothing remains or nothing is ready.
RECURSIVE RunWaves(_, _, _, _, _)
RunWaves(plan, remaining, results, outs, outcomes) ==
    LET sbn == StepsByNumber(plan)
        ready == GetReadySteps(remaining, sbn, results)
        wave == [n \in ready |-> ExecuteStep(sbn[n], outcomes[n])]
    IN  IF remaining = {} \/ ready = {}
        THEN BuildExecutionResult(plan, results, outs)
        ELSE RunWaves(plan, remaining \ ready,
                      [n \in DOMAIN results \cup ready |->
                          IF n \in ready THEN wave[n] ELSE results[n]],
                      AppendOutputs(outs, SortedSeq(ready), wave),
                      outcomes)

\* ExecutorAgent.execute_plan as one call.
ExecutePlan(plan, outcomes) ==
    RunWaves(plan, PlanStepNumbers(plan), EmptyResults, <<>>, outcomes)

\* ------------------------------------------------- classifier configuration

QueryCategories == {"factual", "howto", "architecture", "code", "complex"}

GetConfigOfUnitTests(category) ==
    CASE category = "factual" ->
            [max_iterations |-> 1, skip_pev |-> TRUE, threshold |-> 0,
             early_accept_threshold |-> 0, default_tool |-> "research"]
      [] category = "howto" ->
            [max_iterations |-> 1, skip_pev |-> FALSE, threshold |-> 70,
             early_accept_threshold |-> 85, default_tool |-> "research"]
      [] category = "architecture" ->
            [max_iterations |-> 2, skip_pev |-> FALSE, threshold |-> 75,
             early_accept_threshold |-> 90, default_tool |-> "architecture"]
      [] category = "code" ->
            [max_iterations |-> 1, skip_pev |-> FALSE, threshold |-> 70,
             early_accept_threshold |-> 85, default_tool |-> "code"]
      [] category = "complex" ->
            [max_iterations |-> 4, skip_pev |-> FALSE, threshold |-> 80,
             early_accept_threshold |-> 80, default_tool |-> NoneValue]

\* QueryCategory.get_config. The thresholds of factual are None in the code
\* (no verification); they are written 0 here, which is falsy like None.
GetConfig(category) ==
    CASE category = "factual" ->
            [max_iterations |-> 1, skip_pev |-> TRUE, threshold |-> 0,
             early_accept_threshold |-> 0, default_tool |-> "research"]
      [] category = "howto" ->
            [max_iterations |-> 1, skip_pev |-> FALSE, threshold |-> 70,
             early_accept_threshold |-> 85, default_tool |-> "research"]
      [] category = "architecture" ->
            [max_iterations |-> 2, skip_pev |-> FALSE, threshold |-> 75,
             early_accept_threshold |-> 90, default_tool |-> "architecture"]
      [] category = "code" ->
            [max_iterations |-> 1, skip_pev |-> FALSE, threshold |-> 70,
             early_accept_threshold |-> 85, default_tool |-> "code"]
      [] category = "complex" ->
            [max_iterations |-> 2, skip_pev |-> FALSE, threshold |-> 70,
             early_accept_threshold |-> 80, default_tool |-> NoneValue]

\* ------------------------------------------------- classifier (classify)

\* A query is a sequence of phrases; its text is the phrases joined by single
\* spaces.  One phrase per kind of pattern of QueryClassifier: BLANK is
\* white space, "azure storage" matches no pattern.
MaxQueryLen == 3

BLANK == "  "

Phrases == {BLANK, "what is", "how to", "generate", "best practices for",
            "terraform template", "and also write", "azure storage"}

Queries == UNION {[1..n -> Phrases] : n \in 0..MaxQueryLen}

IsBlank(query) == \A i \in 1..Len(query) : query[i] = BLANK

\* str.strip: the white space at both ends is dropped.
Strip(query) ==
    IF IsBlank(query) THEN <<>>
    ELSE LET first == MinOf({i \in 1..Len(query) : query[i] # BLANK})
             last == CHOOSE i \in 1..Len(query) :
                        /\ query[i] # BLANK
                        /\ \A j \in (i + 1)..Len(query) : query[j] = BLANK
         IN  SubSeq(query, first, last)

\* re.search of a pattern that may match anywhere in the text.
Contains(text, phrase) == \E i \in 1..Len(text) : text[i] = phrase

\* re.search of a pattern "^phrase\s+": the text starts with the phrase and
\* white space follows it.
StartsWith(text, phrase) == Len(text) >= 2 /\ text[1] = phrase

\* _matches_any(text, patterns) for the pattern list of each category.
MatchesAny(text, group) ==
    CASE group = "complex" -> Contains(text, "and also write")
      [] group = "code" -> StartsWith(text, "generate") \/ Contains(text, "terraform template")
      [] group = "architecture" -> Contains(text, "best practices for")
      [] group = "howto" -> StartsWith(text, "how to")
      [] group = "factual" -> StartsWith(text, "what is")

ClassifyCodeFirst(query) ==
    IF Len(query) = 0 \/ IsBlank(query) THEN "factual"
    ELSE LET text == Strip(query)
         IN  IF MatchesAny(text, "code") THEN "code"
             ELSE IF MatchesAny(text, "complex") THEN "complex"
             ELSE IF MatchesAny(text, "architecture") THEN "architecture"
             ELSE IF MatchesAny(text, "howto") THEN "howto"
             ELSE "factual"

\* QueryClassifier.classify.
Classify(query) ==
    IF Len(query) = 0 \/ IsBlank(query) THEN "factual"
    ELSE LET text == Strip(query)
         IN  IF MatchesAny(text, "complex") THEN "complex"
             ELSE IF MatchesAny(text, "code") THEN "code"
             ELSE IF MatchesAny(text, "architecture") THEN "architecture"
             ELSE IF MatchesAny(text, "howto") THEN "howto"
             ELSE IF MatchesAny(text, "factual") THEN "factual"
             ELSE "factual"

\* ------------------------------------------------- planner (reply parsing)

\* A JSON object is a function from the keys it holds to their values
\* (dict).  A value tested with isinstance is wrapped: [list |-> items],
\* [text |-> s], [int |-> n].
Has(dict, key) == key \in DOMAIN dict

\* dict.get(key, default)
Get(dict, key, default) == IF Has(dict, key) THEN dict[key] ELSE default

EmptyDict == [k \in {} |-> 0]

\* The objects with at most the key `key`, its value in `values`.
Optional(key, values) == {EmptyDict} \cup {key :> v : v \in values}

IsList(value) == Has(value, "list")

\* Python truth of a wrapped value.
Truthy(value) ==
    IF IsList(value) THEN value.list # <<>> ELSE value.text # ""

\* The query given to create_plan, and a query text written by the model.
USER_QUERY == "user query"

REPLY_QUERY == "reply query"

\* str.lower on the tool names of the replies.
Lower(tool) ==
    CASE tool = "CODE" -> "code"
      [] tool = "Search" -> "search"
      [] OTHER -> tool

\* re.search(r'\d+', dep) on the dependency names of the replies: the number
\* found, 0 when there is none.
FirstNumber(dep) ==
    CASE dep = "s1" -> 1
      [] dep = "step2" -> 2
      [] OTHER -> 0

\* step_mappings of _normalize_step_schema; "id" maps to None.
StepMappings(key) ==
    CASE key \in {"number", "step"} -> "step_number"
      [] key \in {"action", "instruction", "task", "description"} -> "query"
      [] key \in {"expected", "output", "deliverables"} -> "expected_output"
      [] key \in {"dependencies", "requires"} -> "depends_on"
      [] OTHER -> key

RECURSIVE NormalizeDeps(_)
NormalizeDeps(deps) ==
    IF deps = <<>> THEN <<>>
    ELSE LET dep == Head(deps)
             rest == NormalizeDeps(Tail(deps))
         IN  IF Has(dep, "int") THEN <<dep.int>> \o rest
             ELSE IF FirstNumber(dep.text) # 0 THEN <<FirstNumber(dep.text)>> \o rest
             ELSE rest

\* PlannerAgent._normalize_step_schema
NormalizeStepSchema(step, default_step_num) ==
    LET keys == {StepMappings(k) : k \in DOMAIN step \ {"id"}}
        normalized_step == [k \in keys |->
                              step[CHOOSE j \in DOMAIN step \ {"id"} : StepMappings(j) = k]]
        valid_tools == {"research", "architecture", "code"}
        tool == IF Has(normalized_step, "tool")
                THEN IF Lower(normalized_step.tool) \in valid_tools
                     THEN Lower(normalized_step.tool) ELSE "research"
                ELSE "research"
        deps == IF ~Has(normalized_step, "depends_on") THEN <<>>
                ELSE IF IsList(normalized_step.depends_on)
                     THEN NormalizeDeps(normalized_step.depends_on.list)
                     ELSE <<>>
    IN  [step_number |-> Get(normalized_step, "step_number", default_step_num),
         tool |-> tool,
         query |-> Get(normalized_step, "query",
                       Get(step, "description", Get(step, "action", "Execute step"))),
         expected_output |-> Get(normalized_step, "expected_output", "Step output"),
         depends_on |-> deps]

\* The step _normalize_plan_schema creates when the reply holds no steps.
DefaultStep(original_query) ==
    [step_number |-> 1,
     tool |-> "research",
     query |-> IF original_query # "" THEN original_query ELSE "Research the topic",
     expected_output |-> "Information about the query",
     depends_on |-> [list |-> <<>>]]

\* PlannerAgent._normalize_plan_schema
NormalizePlanSchema(data) ==
    LET original_query == Get(data, "query", Get(data, "user_query", ""))
        summary == IF Has(data, "summary") THEN data.summary
                   ELSE IF original_query # "" THEN "Execute plan for: " \o original_query
                   ELSE "Execution plan"
        found == Get(data, "steps",
                     Get(data, "plan_steps",
                         Get(data, "actions", Get(data, "tasks", [list |-> <<>>]))))
        steps_data == IF ~Truthy(found) \/ ~IsList(found)
                      THEN <<DefaultStep(original_query)>>
                      ELSE found.list
        step_count == Len(steps_data)
    IN  [summary |-> summary,
         estimated_complexity |-> IF step_count <= 2 THEN "simple"
                                  ELSE IF step_count <= 4 THEN "moderate"
                                  ELSE "complex",
         rationale |-> "Plan created based on query analysis",
         steps |-> [idx \in 1..step_count |-> NormalizeStepSchema(steps_data[idx], idx)]]

\* ---------------------------------------------------------------- settings

pev_loop_timeout_seconds == 240

pev_complex_timeout_seconds == 330

\* A budget configured below the estimate of one iteration.
ShortBudget == 30

\* Settings is read from the environment; the PEV budgets are the defaults,
\* or budgets configured to zero, or to ShortBudget seconds.
SettingsChoices ==
    {[pev_loop_timeout_seconds |-> pev_loop_timeout_seconds,
      pev_complex_timeout_seconds |-> pev_complex_timeout_seconds],
     [pev_loop_timeout_seconds |-> 0, pev_complex_timeout_seconds |-> 0],
     [pev_loop_timeout_seconds |-> ShortBudget, pev_complex_timeout_seconds |-> ShortBudget]}

estimated_iteration_time == 45

\* ---------------------------------------------------------------- verifier

ACCEPT == "accept"
RETRY == "retry"
ESCALATE == "escalate"

Decisions == {ACCEPT, RETRY, ESCALATE}

ACCEPTANCE_THRESHOLD == 80

Abs(x) == IF x < 0 THEN -x ELSE x

\* round(x, 2) of x = e / 10000: the nearest hundredth, a tie going to the
\* even one.
Round2(e) ==
    LET q == e \div 100
        r == e % 100
    IN  IF r < 50 THEN q
        ELSE IF r > 50 THEN q + 1
        ELSE IF q % 2 = 0 THEN q ELSE q + 1

\* The weighted overall score in ten-thousandths.
ExpectedOverall(score) ==
    40 * score.correctness + 35 * score.completeness + 25 * score.consistency

VerifyKeepsProposedDecision(parsed) ==
    LET expected == ExpectedOverall(parsed.score)
        overall == IF Abs(100 * parsed.score.overall - expected) > 100
                   THEN Round2(expected) ELSE parsed.score.overall
    IN  [parsed EXCEPT !.score.overall = overall]

VerifyKeepsOverall(parsed) ==
    LET overall == parsed.score.overall
        decision == IF overall >= ACCEPTANCE_THRESHOLD THEN ACCEPT
                    ELSE IF parsed.decision = ACCEPT THEN RETRY
                    ELSE parsed.decision
    IN  [parsed EXCEPT !.decision = decision]

\* VerifierAgent.verify after the reply is parsed: the overall score is
\* recomputed when it is off by more than 0.01, and the decision is derived
\* from the score.
Verify(parsed) ==
    LET expected == ExpectedOverall(parsed.score)
        overall == IF Abs(100 * parsed.score.overall - expected) > 100
                   THEN Round2(expected) ELSE parsed.score.overall
        decision == IF overall >= ACCEPTANCE_THRESHOLD THEN ACCEPT
                    ELSE IF parsed.decision = ACCEPT THEN RETRY
                    ELSE parsed.decision
    IN  [parsed EXCEPT !.score.overall = overall, !.decision = decision]

\* ---------------------------------------------------------------- sessions

MAX_SESSIONS == 1000

\* The session cache is the OrderedDict _sessions: a sequence of entries
\* [id, context, turn_count], least recently used first.
SessionIds(cache) == {cache[i].id : i \in DOMAIN cache}

SessionIndex(cache, id) == CHOOSE i \in DOMAIN cache : cache[i].id = id

Without(cache, id) == SelectSeq(cache, LAMBDA e : e.id # id)

GetOrCreateSessionKeepsTurn(cache, session_id, new_id) ==
    IF session_id = NoneValue
    THEN [cache |-> cache, session_id |-> new_id, turn_count |-> 1]
    ELSE IF session_id \in SessionIds(cache)
    THEN LET e == cache[SessionIndex(cache, session_id)]
         IN  [cache |-> Append(Without(cache, session_id), e),
              session_id |-> session_id, turn_count |-> e.turn_count]
    ELSE [cache |-> cache, session_id |-> session_id, turn_count |-> 1]

\* OrchestratorAgent._get_or_create_session: the cache afterwards, the session
\* id and the turn count of this run. new_id is the uuid minted for a run
\* without a session id.
GetOrCreateSession(cache, session_id, new_id) ==
    IF session_id = NoneValue
    THEN [cache |-> cache, session_id |-> new_id, turn_count |-> 1]
    ELSE IF session_id \in SessionIds(cache)
    THEN LET e == cache[SessionIndex(cache, session_id)]
         IN  [cache |-> Append(Without(cache, session_id), e),
              session_id |-> session_id, turn_count |-> e.turn_count + 1]
    ELSE [cache |-> cache, session_id |-> session_id, turn_count |-> 1]

RECURSIVE EvictNewestWhileFull(_)
EvictNewestWhileFull(cache) ==
    IF Len(cache) >= MAX_SESSIONS
    THEN EvictNewestWhileFull(SubSeq(cache, 1, Len(cache) - 1))
    ELSE cache

RECURSIVE EvictWhileFull(_)
\* while len(self._sessions) >= MAX_SESSIONS: popitem(last=False)
EvictWhileFull(cache) ==
    IF Len(cache) >= MAX_SESSIONS THEN EvictWhileFull(Tail(cache)) ELSE cache

SaveSessionWithoutEviction(cache, session_id, context, turn_count) ==
    LET entry == [id |-> session_id, context |-> context, turn_count |-> turn_count]
    IN  IF session_id \in SessionIds(cache)
        THEN [i \in DOMAIN cache |-> IF cache[i].id = session_id THEN entry ELSE cache[i]]
        ELSE Append(cache, entry)

\* OrchestratorAgent._save_session: an existing key keeps its position.
SaveSession(cache, session_id, context, turn_count) ==
    LET kept == EvictWhileFull(cache)
        entry == [id |-> session_id, context |-> context, turn_count |-> turn_count]
    IN  IF session_id \in SessionIds(kept)
        THEN [i \in DOMAIN kept |-> IF kept[i].id = session_id THEN entry ELSE kept[i]]
        ELSE Append(kept, entry)

\* OrchestratorAgent.clear_session: the cache afterwards.
ClearSessionCache(cache, session_id) == Without(cache, session_id)

\* OrchestratorAgent.get_session_info: the turn count reported, None for an
\* id that is not in the cache.
GetSessionInfo(cache, session_id) ==
    IF session_id \in SessionIds(cache)
    THEN [turn_count |-> cache[SessionIndex(cache, session_id)].turn_count, active |-> TRUE]
    ELSE Null

\* ------------------------------------------------- orchestrator (pure parts)

\* The clock is known where the code reads it: at the head of the loop and
\* after the verification. Between two readings no time to speak of passes,
\* or ShortDelay seconds, or LongDelay seconds.
ShortDelay == 50

LongDelay == 200

Delays == {0, ShortDelay, LongDelay}

\* The clock is read as seconds since pev_start_time; readings beyond both
\* budgets behave alike and are kept at ClockCap.
ClockCap == pev_complex_timeout_seconds + estimated_iteration_time

Advance(t, d) == IF t + d > ClockCap THEN ClockCap ELSE t + d

\* max_steps of _run_pev_loop: max_steps_map.get(category.value, 3)
MaxSteps(category) ==
    CASE category = "factual" -> 1
      [] category = "code" -> 1
      [] category = "howto" -> 2
      [] category = "architecture" -> 2
      [] category = "complex" -> 3
      [] OTHER -> 3

\* pev_timeout of _run_pev_loop
PevTimeout(category, s) ==
    IF category = "complex" THEN s.pev_complex_timeout_seconds
    ELSE s.pev_loop_timeout_seconds

\* "Track best result": the pair kept after an iteration.
TrackBestOnTies(best, result, verification) ==
    IF best.verification = Null
       \/ verification.score.overall >= best.verification.score.overall
    THEN [result |-> result, verification |-> verification]
    ELSE best

TrackBest(best, result, verification) ==
    IF best.verification = Null
       \/ verification.score.overall > best.verification.score.overall
    THEN [result |-> result, verification |-> verification]
    ELSE best

TerminationReasonIgnoringEscalate(verification, config, pev_timeout, elapsed) ==
    IF verification.decision = ACCEPT THEN "accept"
    ELSE IF config.early_accept_threshold # 0
            /\ verification.score.overall >= config.early_accept_threshold
    THEN "early_accept"
    ELSE IF verification.score.overall >= config.threshold THEN "threshold"
    ELSE IF pev_timeout - elapsed < estimated_iteration_time THEN "insufficient_time"
    ELSE IF elapsed >= pev_timeout THEN "timeout"
    ELSE "continue"

\* The termination checks after verification, in the order of the code; elapsed
\* is the clock reading taken for the time checks.
TerminationReason(verification, config, pev_timeout, elapsed) ==
    IF verification.decision = ACCEPT THEN "accept"
    ELSE IF config.early_accept_threshold # 0
            /\ verification.score.overall >= config.early_accept_threshold
    THEN "early_accept"
    ELSE IF verification.score.overall >= config.threshold THEN "threshold"
    ELSE IF verification.decision = ESCALATE THEN "escalate"
    ELSE IF pev_timeout - elapsed < estimated_iteration_time THEN "insufficient_time"
    ELSE IF elapsed >= pev_timeout THEN "timeout"
    ELSE "continue"

NextFeedbackSummaryOnly(verification) == verification.summary

\* The feedback prepared for the next iteration: feedback_for_replanning, or
\* the summary when that is empty.
NextFeedback(verification) ==
    IF verification.feedback_for_replanning # ""
    THEN verification.feedback_for_replanning
    ELSE verification.summary

\* requires_human_review of the response
RequiresHumanReviewScoreOnly(best_verification, threshold, timeout_reached) ==
    \/ (best_verification # Null /\ best_verification.score.overall < threshold)
    \/ timeout_reached

RequiresHumanReview(best_verification, threshold, timeout_reached) ==
    \/ (best_verification # Null /\ best_verification.decision = ESCALATE)
    \/ (best_verification # Null /\ best_verification.score.overall < threshold)
    \/ timeout_reached

\* The loop condition and the budget check at the head of the loop:
\* "run" starts an iteration, "timeout" and "max_iterations" leave the loop.
LoopHeadDecisionInclusive(iteration, max_iterations, elapsed, pev_timeout) ==
    IF ~(iteration <= max_iterations) THEN "max_iterations"
    ELSE IF elapsed >= pev_timeout THEN "timeout"
    ELSE "run"

LoopHeadDecision(iteration, max_iterations, elapsed, pev_timeout) ==
    IF ~(iteration < max_iterations) THEN "max_iterations"
    ELSE IF elapsed >= pev_timeout THEN "timeout"
    ELSE "run"

\* The AgentResponse of the PEV path.
PevResponse(best, iteration, requires_human_review, current_plan, category, sid, turn) ==
    [content |-> best.result.final_output,
     verification_score |-> best.verification.score.overall,
     score_details |-> best.verification.score,
     iterations_used |-> iteration,
     requires_human_review |-> requires_human_review,
     plan_summary |-> IF current_plan # Null THEN current_plan.summary ELSE NoneValue,
     execution_steps |-> best.result.step_results,
     query_category |-> category,
     session_id |-> sid,
     turn_count |-> turn]

\* The agent _fast_path calls for the category's default tool; the researcher
\* when the tool is none of the three.
FastPathAgent(tool) ==
    CASE tool = "research" -> "researcher"
      [] tool = "architecture" -> "architect"
      [] tool = "code" -> "ghcp_coding"
      [] OTHER -> "researcher"

FastPathResponseFlagged(category, sid, turn) ==
    [content |-> <<[step_number |-> 1, output |-> GetConfig(category).default_tool]>>,
     verification_score |-> NoneValue,
     score_details |-> NoneValue,
     iterations_used |-> 1,
     requires_human_review |-> TRUE,
     plan_summary |-> "fast path",
     execution_steps |-> <<[step_number |-> 1, status |-> COMPLETED]>>,
     query_category |-> category,
     session_id |-> sid,
     turn_count |-> turn]

\* The AgentResponse of the fast path: one completed step, no verification.
FastPathResponse(category, sid, turn) ==
    [content |-> <<[step_number |-> 1, output |-> GetConfig(category).default_tool]>>,
     verification_score |-> NoneValue,
     score_details |-> NoneValue,
     iterations_used |-> 1,
     requires_human_review |-> FALSE,
     plan_summary |-> "fast path",
     execution_steps |-> <<[step_number |-> 1, status |-> COMPLETED]>>,
     query_category |-> category,
     session_id |-> sid,
     turn_count |-> turn]

\* ------------------------------------------------ inputs of a PEV run

\* The planner returns plans of at most MaxPlannerSteps steps, numbered from 1.
MaxPlannerSteps == 1

\* The plans the planner may return, whatever max_steps it was given (the
\* planner only writes max_steps into its prompt): steps 1..n with any
\* depends_on among 1..MaxPlannerSteps (no steps at all, self-dependencies and
\* cycles included), and one longer plan of independent steps.
PlannerPlans ==
    UNION {{PlanOf(1..n, d) : d \in [1..n -> SUBSET (1..MaxPlannerSteps)]} :
              n \in 0..MaxPlannerSteps}
    \cup {PlanOf(1..(MaxPlannerSteps + 1), [n \in 1..(MaxPlannerSteps + 1) |-> {}])}

\* Score values on either side of every threshold.
ScoreLevels == {60, 72, 78, 85}

\* What the verifier's reasoning call may return once parsed: three equal
\* component scores, an overall value that is consistent or inflated, any
\* decision, and with a retry decision feedback or none.
VerifierReplies ==
    {r \in {[score |-> [correctness |-> v, completeness |-> v, consistency |-> v,
                        overall |-> IF inflated THEN 95 ELSE v],
             decision |-> d, feedback_for_replanning |-> f, summary |-> "summary"] :
               v \in ScoreLevels, inflated \in BOOLEAN, d \in Decisions,
               f \in {"", "feedback"}} :
        r.feedback_for_replanning = "" \/ r.decision = RETRY}

\* ------------------------------------------------------------------ state

VARIABLES
    ex_pc,            \* executor position: "idle", "loop", "gather", "done"
    ex_plan,          \* the plan given to execute_plan
    remaining_steps,  \* remaining_steps
    step_results,     \* step_results: step_number -> StepResult
    all_outputs,      \* all_outputs
    ready_steps,      \* ready_steps of the running wave, in iteration order
    wave_results,     \* results of the wave's tasks that have resolved
    execution_result, \* the ExecutionResult returned
    ex_exit,          \* how the wave loop was left: "none", "empty", "no_ready"
    waves,            \* history: the waves launched, in order
    out_of_order,     \* history: some task resolved before a lower-numbered task of its wave
    step_outcomes     \* history: step_number -> how its capability call ended

VARIABLES
    pc,               \* position of run: "idle", "fast", "loop_head", "plan", "execute",
                      \*   "verify", "build", "done" (returned), "raised"
    settings,         \* get_settings()
    sessions,         \* self._sessions
    category,         \* classifier.classify(query)
    session_id,       \* session id of the run
    turn_count,       \* turn count of the run
    now,              \* last reading of perf_counter() - pev_start_time
    iteration,        \* iteration
    current_plan,     \* current_plan
    result,           \* result of the iteration being verified
    best_result,      \* best_result
    best_verification,\* best_verification
    feedback,         \* feedback
    timeout_reached,  \* timeout_reached
    response,         \* the AgentResponse returned
    error,            \* the exception that left run, if any
    exit_reason,      \* history: how the PEV loop was left
    planner_calls,    \* history: the planner calls made, in order
    history,          \* history: result and verification of each completed iteration
    calls             \* history: the agents called by the run, in order

VARIABLES
    runs,             \* concurrent run calls: slot -> where the call is and its session
    last_op,          \* history: the last operation on the session cache
    streak,           \* history: session id -> completed runs made one after another
    completed,        \* history: session id -> completed runs, overlapping or not
    ops,              \* history: number of operations made on the orchestrator
    minted            \* history: number of session ids generated by uuid4

VARIABLES
    v_pc,             \* position of the verifier call: "idle", "parsed", "verified", "rederived"
    v_parsed,         \* the VerificationResult parsed from the reply
    v_verified,       \* the VerificationResult returned by verify
    v_rederived       \* the derivation of verify applied to the returned result

VARIABLES
    pl_pc,            \* position of the planner's reply parsing: "idle", "reply", "parsed", "raised"
    pl_query,         \* the query given to create_plan
    pl_data,          \* the JSON object found in the reply, Null when there is none
    pl_plan           \* the normalized plan

VARIABLES
    cl_pc,            \* position of the classification: "idle", "query", "classified", "again"
    cl_query,         \* the query given to classify
    cl_category,      \* the category classify returned
    cl_again          \* the category a second call of classify returned

pl_vars == <<pl_pc, pl_query, pl_data, pl_plan>>

cl_vars == <<cl_pc, cl_query, cl_category, cl_again>>

pev_vars == <<pc, settings, sessions, category, session_id, turn_count, now, iteration,
              current_plan, result, best_result, best_verification, feedback,
              timeout_reached, response, error, exit_reason, planner_calls, history,
              calls>>

svc_vars == <<runs, last_op, streak, completed, ops, minted>>

ver_vars == <<v_pc, v_parsed, v_verified, v_rederived>>

ex_vars == <<ex_pc, ex_plan, remaining_steps, step_results, all_outputs, ready_steps,
             wave_results, execution_result, ex_exit, waves, out_of_order,
             step_outcomes>>

vars == <<ex_vars, pev_vars, svc_vars, ver_vars, pl_vars, cl_vars>>


\* ---------------------------------------------------- orchestrator (actions)

\* No run in progress: a fresh OrchestratorAgent and the locals of
\* _run_pev_loop at their initial values.
PevLocalsIdle ==
    /\ pc = "idle"
    /\ category = NoneValue
    /\ session_id = NoneValue
    /\ turn_count = 0
    /\ now = 0
    /\ iteration = 0
    /\ current_plan = Null
    /\ result = Null
    /\ best_result = Null
    /\ best_verification = Null
    /\ feedback = ""
    /\ timeout_reached = FALSE
    /\ response = Null
    /\ error = NoneValue
    /\ exit_reason = "none"
    /\ planner_calls = <<>>
    /\ history = <<>>
    /\ calls = <<>>

PevIdle ==
    /\ sessions = <<>>
    /\ PevLocalsIdle

\* No execute_plan call in progress.
ExecIdle ==
    /\ ex_pc = "idle"
    /\ ex_plan = Null
    /\ remaining_steps = {}
    /\ step_results = EmptyResults
    /\ all_outputs = <<>>
    /\ ready_steps = <<>>
    /\ wave_results = EmptyResults
    /\ execution_result = Null
    /\ ex_exit = "none"
    /\ waves = <<>>
    /\ out_of_order = FALSE
    /\ step_outcomes = EmptyResults

\* No concurrent run call in progress, no operation made yet.
SvcIdle ==
    /\ runs = <<>>
    /\ last_op = Null
    /\ streak = <<>>
    /\ completed = <<>>
    /\ ops = 0
    /\ minted = 0

\* No verifier call in progress.
VerIdle ==
    /\ v_pc = "idle"
    /\ v_parsed = Null
    /\ v_verified = Null
    /\ v_rederived = Null

\* No planner reply being parsed.
PlanIdle ==
    /\ pl_pc = "idle"
    /\ pl_query = NoneValue
    /\ pl_data = Null
    /\ pl_plan = Null

\* No classification in progress.
ClassIdle ==
    /\ cl_pc = "idle"
    /\ cl_query = <<>>
    /\ cl_category = NoneValue
    /\ cl_again = NoneValue

Init ==
    /\ settings \in SettingsChoices
    /\ PevIdle
    /\ ExecIdle
    /\ SvcIdle
    /\ VerIdle
    /\ PlanIdle
    /\ ClassIdle

Config == GetConfig(category)

\* run: the session is resolved, the query classified, and the fast path or
\* the PEV loop entered.
Run ==
    /\ pc = "idle"
    /\ \E sid \in {NoneValue} : \E cat \in QueryCategories :
          LET s == GetOrCreateSession(sessions, sid, "uuid")
          IN  /\ sessions' = s.cache
              /\ session_id' = s.session_id
              /\ turn_count' = s.turn_count
              /\ category' = cat
              /\ pc' = IF GetConfig(cat).skip_pev THEN "fast" ELSE "loop_head"
    /\ UNCHANGED <<settings, now, iteration, current_plan, result, best_result,
                   best_verification, feedback, timeout_reached, response, error,
                   exit_reason, planner_calls, history, calls>>
    /\ UNCHANGED <<ex_vars, svc_vars, ver_vars, pl_vars, cl_vars>>

\* _fast_path: one direct capability call, the response and the session save.
FastPath ==
    /\ pc = "fast"
    /\ calls' = Append(calls, [agent |-> FastPathAgent(Config.default_tool),
                               input |-> "query"])
    /\ response' = FastPathResponse(category, session_id, turn_count)
    /\ sessions' = SaveSession(sessions, session_id,
                               [last_plan |-> NoneValue, last_result |-> NoneValue], turn_count)
    /\ pc' = "done"
    /\ UNCHANGED <<settings, category, session_id, turn_count, now, iteration, current_plan,
                   result, best_result, best_verification, feedback, timeout_reached,
                   error, exit_reason, planner_calls, history>>
    /\ UNCHANGED <<ex_vars, svc_vars, ver_vars, pl_vars, cl_vars>>

\* The head of the while loop: the loop condition, the reading of the clock
\* and the budget check; an iteration starts or the loop is left.
LoopHead ==
    /\ pc = "loop_head"
    /\ \E d \in Delays :
          LET elapsed == Advance(now, d)
              decision == LoopHeadDecision(iteration, Config.max_iterations, elapsed,
                                           PevTimeout(category, settings))
          IN  /\ now' = elapsed
              /\ iteration' = IF decision = "run" THEN iteration + 1 ELSE iteration
              /\ timeout_reached' = (timeout_reached \/ decision = "timeout")
              /\ exit_reason' = IF decision = "run" THEN exit_reason ELSE decision
              /\ pc' = IF decision = "run" THEN "plan" ELSE "build"
    /\ UNCHANGED <<settings, sessions, category, session_id, turn_count, current_plan,
                   result, best_result, best_verification, feedback, response, error,
                   planner_calls, history, calls>>
    /\ UNCHANGED <<ex_vars, svc_vars, ver_vars, pl_vars, cl_vars>>

\* Phase 1: create_plan on iteration 1, refine_plan afterwards. The planner
\* returns a plan, or raises ValueError when its reply holds no JSON object.
Plan ==
    /\ pc = "plan"
    /\ calls' = Append(calls, [agent |-> "planner", input |-> "query"])
    /\ planner_calls' =
          Append(planner_calls,
                 [call |-> IF iteration = 1 THEN "create_plan" ELSE "refine_plan",
                  feedback |-> feedback,
                  max_steps |-> MaxSteps(category),
                  previous_plan |-> IF iteration = 1 THEN 0 ELSE current_plan.summary])
    /\ \/ /\ \E plan \in PlannerPlans :
                current_plan' = [plan EXCEPT !.summary = iteration]
          /\ pc' = "execute"
          /\ error' = error
       \/ /\ error' = "ValueError"
          /\ pc' = "raised"
          /\ UNCHANGED current_plan
    /\ UNCHANGED <<settings, now, sessions, category, session_id, turn_count, iteration, result,
                   best_result, best_verification, feedback, timeout_reached, response,
                   exit_reason, history>>
    /\ UNCHANGED <<ex_vars, svc_vars, ver_vars, pl_vars, cl_vars>>

\* Phase 2: executor.execute_plan(current_plan, query). Each step's call
\* succeeds or fails; a call that throws and a call that times out differ only
\* in the error text, which the loop never reads.
Execute ==
    /\ pc = "execute"
    /\ calls' = Append(calls, [agent |-> "executor", input |-> "plan"])
    /\ \E outcomes \in [PlanStepNumbers(current_plan) -> {"ok", "timeout"}] :
          result' = ExecutePlan(current_plan, outcomes)
    /\ pc' = "verify"
    /\ UNCHANGED <<settings, now, sessions, category, session_id, turn_count, iteration,
                   current_plan, best_result, best_verification, feedback, timeout_reached,
                   response, error, exit_reason, planner_calls, history>>
    /\ UNCHANGED <<ex_vars, svc_vars, ver_vars, pl_vars, cl_vars>>

\* Phase 3 and the rest of the loop body: verifier.verify, the best result is
\* tracked, the termination checks are made and the feedback is prepared. The
\* verifier raises ValueError when its reply holds no JSON object.
VerifyAndDecide ==
    /\ pc = "verify"
    /\ calls' = Append(calls, [agent |-> "verifier", input |-> "result"])
    /\ \/ \E reply \in VerifierReplies : \E d \in Delays :
            LET verification == Verify(reply)
                best == TrackBest([result |-> best_result, verification |-> best_verification],
                                  result, verification)
                elapsed == Advance(now, d)
                reason == TerminationReason(verification, Config,
                                            PevTimeout(category, settings), elapsed)
            IN  /\ best_result' = best.result
                /\ best_verification' = best.verification
                /\ history' = Append(history, [plan_summary |-> result.plan_summary,
                                              final_output |-> result.final_output,
                                              score |-> verification.score,
                                              decision |-> verification.decision,
                                              feedback_for_replanning |->
                                                  verification.feedback_for_replanning,
                                              summary |-> verification.summary])
                /\ now' = elapsed
                /\ timeout_reached' = (timeout_reached \/ reason = "timeout")
                /\ exit_reason' = IF reason = "continue" THEN exit_reason ELSE reason
                /\ feedback' =
                      IF reason # "continue" THEN feedback ELSE NextFeedback(verification)
                /\ pc' = IF reason = "continue" THEN "loop_head" ELSE "build"
                /\ result' = Null
                /\ error' = error
       \/ /\ error' = "ValueError"
          /\ pc' = "raised"
          /\ UNCHANGED <<best_result, best_verification, history, now, timeout_reached,
                         exit_reason, feedback, result>>
    /\ UNCHANGED <<settings, sessions, category, session_id, turn_count, iteration,
                   current_plan, response, planner_calls>>
    /\ UNCHANGED <<ex_vars, svc_vars, ver_vars, pl_vars, cl_vars>>

\* After the loop: requires_human_review, the session save and the response.
\* Building the response reads best_result.final_output, which raises
\* AttributeError when no iteration completed.
BuildResponse ==
    /\ pc = "build"
    /\ sessions' = SaveSession(sessions, session_id,
                               [last_plan |-> IF current_plan = Null THEN 0
                                              ELSE current_plan.summary,
                                last_result |-> IF best_result = Null THEN 0
                                                ELSE best_result.plan_summary],
                               turn_count)
    /\ IF best_result = Null
       THEN /\ error' = "AttributeError"
            /\ pc' = "raised"
            /\ response' = response
       ELSE /\ response' =
                  PevResponse([result |-> best_result, verification |-> best_verification],
                              iteration,
                              RequiresHumanReview(best_verification, Config.threshold,
                                                  timeout_reached),
                              current_plan, category, session_id, turn_count)
            /\ pc' = "done"
            /\ error' = error
    /\ UNCHANGED <<settings, category, session_id, turn_count, now, iteration, current_plan,
                   result, best_result, best_verification, feedback, timeout_reached,
                   exit_reason, planner_calls, history, calls>>
    /\ UNCHANGED <<ex_vars, svc_vars, ver_vars, pl_vars, cl_vars>>

Next == Run \/ FastPath \/ LoopHead \/ Plan \/ Execute \/ VerifyAndDecide \/ BuildResponse

Spec == Init /\ [][Next]_vars

\* ------------------------------------------------------- executor (actions)

\* execute_plan entered with a plan: the state before the first pass of the loop.
\* The plan is any set of step numbers with any depends_on (self-dependencies,
\* cycles, step numbers that are not in the plan and a step number used twice
\* included; models.py validates none of this).
InitExec ==
    /\ settings = [pev_loop_timeout_seconds |-> pev_loop_timeout_seconds,
                   pev_complex_timeout_seconds |-> pev_complex_timeout_seconds]
    /\ PevIdle
    /\ SvcIdle
    /\ VerIdle
    /\ PlanIdle
    /\ ClassIdle
    /\ \E S \in SUBSET StepNumbers : \E d \in [S -> SUBSET StepNumbers] :
          \/ ex_plan = PlanOf(S, d)
          \/ /\ S # {}
             /\ Cardinality(S) <= MaxDuplicatedPlanSteps
             /\ ex_plan = WithDuplicate(PlanOf(S, d), MinOf(S))
    /\ ex_pc = "loop"
    /\ remaining_steps = PlanStepNumbers(ex_plan)
    /\ step_results = EmptyResults
    /\ all_outputs = <<>>
    /\ ready_steps = <<>>
    /\ wave_results = EmptyResults
    /\ execution_result = Null
    /\ ex_exit = "none"
    /\ waves = <<>>
    /\ out_of_order = FALSE
    /\ step_outcomes = EmptyResults

ReadyNow == GetReadySteps(remaining_steps, StepsByNumber(ex_plan), step_results)

\* One pass of the loop up to asyncio.gather: the ready steps are launched
\* together, in the order the remaining set iterates.
WaveStart ==
    /\ ex_pc = "loop"
    /\ remaining_steps # {}
    /\ ReadyNow # {}
    /\ \E order \in Perms(ReadyNow) : ready_steps' = order
    /\ wave_results' = EmptyResults
    /\ waves' = Append(waves, ReadyNow)
    /\ ex_pc' = "gather"
    /\ UNCHANGED <<ex_plan, remaining_steps, step_results, all_outputs,
                   execution_result, ex_exit, out_of_order, step_outcomes>>
    /\ UNCHANGED <<pev_vars, svc_vars, ver_vars, pl_vars, cl_vars>>

StepResolveRecordsAtOnce ==
    /\ ex_pc = "gather"
    /\ \E n \in Range(ready_steps) \ DOMAIN wave_results :
       \E outcome \in StepOutcomes :
          /\ wave_results' =
                [m \in DOMAIN wave_results \cup {n} |->
                    IF m = n THEN ExecuteStep(StepsByNumber(ex_plan)[n], outcome)
                    ELSE wave_results[m]]
          /\ step_results' =
                [m \in DOMAIN step_results \cup {n} |->
                    IF m = n THEN ExecuteStep(StepsByNumber(ex_plan)[n], outcome)
                    ELSE step_results[m]]
          /\ step_outcomes' =
                [m \in DOMAIN step_outcomes \cup {n} |->
                    IF m = n THEN outcome ELSE step_outcomes[m]]
          /\ out_of_order' =
                (out_of_order \/ \E m \in Range(ready_steps) \ DOMAIN wave_results : m < n)
    /\ UNCHANGED <<ex_pc, ex_plan, remaining_steps, all_outputs,
                   ready_steps, execution_result, ex_exit, waves>>
    /\ UNCHANGED <<pev_vars, svc_vars, ver_vars, pl_vars, cl_vars>>

\* A launched task resolves: _execute_step returns its StepResult.
StepResolve ==
    /\ ex_pc = "gather"
    /\ \E n \in Range(ready_steps) \ DOMAIN wave_results :
       \E outcome \in StepOutcomes :
          /\ wave_results' =
                [m \in DOMAIN wave_results \cup {n} |->
                    IF m = n THEN ExecuteStep(StepsByNumber(ex_plan)[n], outcome)
                    ELSE wave_results[m]]
          /\ step_outcomes' =
                [m \in DOMAIN step_outcomes \cup {n} |->
                    IF m = n THEN outcome ELSE step_outcomes[m]]
          /\ out_of_order' =
                (out_of_order \/ \E m \in Range(ready_steps) \ DOMAIN wave_results : m < n)
    /\ UNCHANGED <<ex_pc, ex_plan, remaining_steps, step_results, all_outputs,
                   ready_steps, execution_result, ex_exit, waves>>
    /\ UNCHANGED <<pev_vars, svc_vars, ver_vars, pl_vars, cl_vars>>

\* gather returns when every task of the wave has resolved; the results are
\* recorded in ready_steps order and the steps leave the remaining set.
WaveJoin ==
    /\ ex_pc = "gather"
    /\ DOMAIN wave_results = Range(ready_steps)
    /\ step_results' =
          [n \in DOMAIN step_results \cup DOMAIN wave_results |->
              IF n \in DOMAIN wave_results THEN wave_results[n] ELSE step_results[n]]
    /\ all_outputs' = AppendOutputs(all_outputs, ready_steps, wave_results)
    /\ remaining_steps' = remaining_steps \ Range(ready_steps)
    /\ ready_steps' = <<>>
    /\ wave_results' = EmptyResults
    /\ ex_pc' = "loop"
    /\ UNCHANGED <<ex_plan, execution_result, ex_exit, waves, out_of_order,
                   step_outcomes>>
    /\ UNCHANGED <<pev_vars, svc_vars, ver_vars, pl_vars, cl_vars>>

\* The loop ends because remaining_steps is empty; the result is built.
ExecFinish ==
    /\ ex_pc = "loop"
    /\ remaining_steps = {}
    /\ execution_result' = BuildExecutionResult(ex_plan, step_results, all_outputs)
    /\ ex_exit' = "empty"
    /\ ex_pc' = "done"
    /\ UNCHANGED <<ex_plan, remaining_steps, step_results, all_outputs, ready_steps,
                   wave_results, waves, out_of_order, step_outcomes>>
    /\ UNCHANGED <<pev_vars, svc_vars, ver_vars, pl_vars, cl_vars>>

ExecNoReadyKeepsLooping ==
    /\ ex_pc = "loop"
    /\ remaining_steps # {}
    /\ ReadyNow = {}
    /\ ex_pc' = "loop"
    /\ UNCHANGED <<ex_plan, remaining_steps, step_results, all_outputs, ready_steps,
                   wave_results, waves, out_of_order, step_outcomes, execution_result,
                   ex_exit>>
    /\ UNCHANGED <<pev_vars, svc_vars, ver_vars, pl_vars, cl_vars>>

\* No step is ready while steps remain: break, and the result is built.
ExecNoReady ==
    /\ ex_pc = "loop"
    /\ remaining_steps # {}
    /\ ReadyNow = {}
    /\ execution_result' = BuildExecutionResult(ex_plan, step_results, all_outputs)
    /\ ex_exit' = "no_ready"
    /\ ex_pc' = "done"
    /\ UNCHANGED <<ex_plan, remaining_steps, step_results, all_outputs, ready_steps,
                   wave_results, waves, out_of_order, step_outcomes>>
    /\ UNCHANGED <<pev_vars, svc_vars, ver_vars, pl_vars, cl_vars>>

NextExec == WaveStart \/ StepResolve \/ WaveJoin \/ ExecFinish \/ ExecNoReady

SpecExec == InitExec /\ [][NextExec]_vars

\* execute_plan when the event loop keeps running it and every step call
\* resolves or times out (asyncio.wait_for around each call): a step of the
\* executor that can be taken is eventually taken.
SpecExecFair == InitExec /\ [][NextExec]_vars /\ WF_vars(NextExec)

\* ------------------------------------- orchestrator as a service (actions)

\* Run calls in progress at the same time (run is a coroutine: other calls
\* are served between its session lookup and its session save).
MaxRuns == 2

\* Operations made on one orchestrator.
MaxOps == 4

RunSlots == 1..MaxRuns

\* The ids of a cache that n runs with ids "1".."n" have filled.
FilledCache(n) == [i \in 1..n |-> [id |-> ToString(i), context |-> "ctx", turn_count |-> 1]]

\* The cache is empty, one short of full, or full.
InitialCaches == {FilledCache(n) : n \in {0, MAX_SESSIONS - 1, MAX_SESSIONS}}

\* The session ids callers pass: the two oldest of a filled cache and one
\* that is in no initial cache.
RequestedIds == {"1", "2", ToString(MAX_SESSIONS + 1)}

IdsOf(cache) == [i \in DOMAIN cache |-> cache[i].id]

IdleRun == [phase |-> "idle", session_id |-> NoneValue, turn_count |-> 0, found |-> FALSE]

Tainted == -1

\* An orchestrator in service: no call in progress, a cache that earlier
\* runs have filled.
InitSvc ==
    /\ settings = [pev_loop_timeout_seconds |-> pev_loop_timeout_seconds,
                   pev_complex_timeout_seconds |-> pev_complex_timeout_seconds]
    /\ PevLocalsIdle
    /\ ExecIdle
    /\ VerIdle
    /\ PlanIdle
    /\ ClassIdle
    /\ sessions \in InitialCaches
    /\ runs = [r \in RunSlots |-> IdleRun]
    /\ last_op = [op |-> "none"]
    /\ streak = [id \in RequestedIds |-> IF id \in SessionIds(sessions) THEN 1 ELSE 0]
    /\ completed = [id \in RequestedIds |-> IF id \in SessionIds(sessions) THEN 1 ELSE 0]
    /\ ops = 0
    /\ minted = 0

FreeSlot == CHOOSE r \in RunSlots : runs[r].phase = "idle" /\ \A q \in RunSlots : runs[q].phase = "idle" => r <= q

\* run up to its first await: the session is looked up or created.
RunStart ==
    /\ ops < MaxOps
    /\ \E r \in RunSlots : runs[r].phase = "idle"
    /\ \E sid \in RequestedIds \cup {NoneValue} :
          LET s == GetOrCreateSession(sessions, sid, "u" \o ToString(minted + 1))
              found == sid \in SessionIds(sessions)
              overlap == \E q \in RunSlots : runs[q].phase = "running"
                                             /\ runs[q].session_id = s.session_id
          IN  /\ sessions' = s.cache
              /\ runs' = [runs EXCEPT ![FreeSlot] =
                            [phase |-> "running", session_id |-> s.session_id,
                             turn_count |-> s.turn_count, found |-> found]]
              /\ minted' = IF sid = NoneValue THEN minted + 1 ELSE minted
              /\ last_op' = [op |-> "lookup", sid |-> s.session_id, found |-> found,
                             turn_count |-> s.turn_count]
              /\ streak' = IF overlap /\ s.session_id \in DOMAIN streak
                           THEN [streak EXCEPT ![s.session_id] = Tainted]
                           ELSE streak
    /\ completed' = completed
    /\ ops' = ops + 1
    /\ UNCHANGED <<pc, settings, category, session_id, turn_count, now, iteration,
                   current_plan, result, best_result, best_verification, feedback,
                   timeout_reached, response, error, exit_reason, planner_calls, history,
                   calls>>
    /\ UNCHANGED <<ex_vars, ver_vars, pl_vars, cl_vars>>

\* run from its last await to its return: the session is saved (by _fast_path
\* or by _run_pev_loop) and the response returned.
RunEnd ==
    /\ ops < MaxOps
    /\ \E r \in RunSlots :
          /\ runs[r].phase = "running"
          /\ \E after \in {SaveSession(sessions, runs[r].session_id, "ctx", runs[r].turn_count)} :
             \E evicted \in {SessionIds(sessions) \ SessionIds(after)} :
             LET sid == runs[r].session_id
             IN  /\ sessions' = after
                 /\ last_op' = [op |-> "save", sid |-> sid,
                                turn_count |-> runs[r].turn_count,
                                before |-> IdsOf(sessions),
                                touched |-> IF last_op.op = "lookup" /\ last_op.found
                                            THEN last_op.sid ELSE NoneValue]
                 /\ streak' = [id \in DOMAIN streak |->
                                 IF streak[id] = Tainted \/ id \in evicted THEN Tainted
                                 ELSE IF id = sid THEN streak[id] + 1
                                 ELSE streak[id]]
                 /\ completed' = [id \in DOMAIN completed |->
                                    IF completed[id] = Tainted \/ id \in evicted THEN Tainted
                                    ELSE IF id = sid THEN completed[id] + 1
                                    ELSE completed[id]]
          /\ runs' = [runs EXCEPT ![r] = IdleRun]
    /\ ops' = ops + 1
    /\ UNCHANGED <<pc, settings, category, session_id, turn_count, now, iteration,
                   current_plan, result, best_result, best_verification, feedback,
                   timeout_reached, response, error, exit_reason, planner_calls, history,
                   calls, minted>>
    /\ UNCHANGED <<ex_vars, ver_vars, pl_vars, cl_vars>>

\* run leaves by an exception (planner or verifier reply without a JSON
\* object): the session is not saved.
RunRaise ==
    /\ ops < MaxOps
    /\ \E r \in RunSlots :
          /\ runs[r].phase = "running"
          /\ runs' = [runs EXCEPT ![r] = IdleRun]
          /\ last_op' = [op |-> "raise", sid |-> runs[r].session_id]
    /\ ops' = ops + 1
    /\ UNCHANGED <<pc, settings, sessions, category, session_id, turn_count, now, iteration,
                   current_plan, result, best_result, best_verification, feedback,
                   timeout_reached, response, error, exit_reason, planner_calls, history,
                   calls, minted, streak, completed>>
    /\ UNCHANGED <<ex_vars, ver_vars, pl_vars, cl_vars>>

\* clear_session(session_id)
ClearSession ==
    /\ ops < MaxOps
    /\ \E sid \in RequestedIds :
          /\ sessions' = ClearSessionCache(sessions, sid)
          /\ last_op' = [op |-> "clear", sid |-> sid, returned |-> sid \in SessionIds(sessions)]
          /\ streak' = [streak EXCEPT ![sid] = Tainted]
          /\ completed' = [completed EXCEPT ![sid] = Tainted]
    /\ ops' = ops + 1
    /\ UNCHANGED <<pc, settings, category, session_id, turn_count, now, iteration,
                   current_plan, result, best_result, best_verification, feedback,
                   timeout_reached, response, error, exit_reason, planner_calls, history,
                   calls, minted, runs>>
    /\ UNCHANGED <<ex_vars, ver_vars, pl_vars, cl_vars>>

\* get_session_info(session_id)
SessionInfo ==
    /\ ops < MaxOps
    /\ \E sid \in RequestedIds :
          last_op' = [op |-> "info", sid |-> sid, returned |-> GetSessionInfo(sessions, sid)]
    /\ ops' = ops + 1
    /\ UNCHANGED <<pc, settings, sessions, category, session_id, turn_count, now, iteration,
                   current_plan, result, best_result, best_verification, feedback,
                   timeout_reached, response, error, exit_reason, planner_calls, history,
                   calls, minted, runs, streak, completed>>
    /\ UNCHANGED <<ex_vars, ver_vars, pl_vars, cl_vars>>

NextSvc == RunStart \/ RunEnd \/ RunRaise \/ ClearSession \/ SessionInfo

SpecSvc == InitSvc /\ [][NextSvc]_vars

\* ---------------------------------------------------- verifier (actions)

\* Component scores and raw overall values are multiples of ScoreStep
\* hundredths, and 1.0.
ScoreStep == 10

ScoreGrid == {k * ScoreStep : k \in 0..(100 \div ScoreStep)} \cup {100}

\* Raw overall values: the grid and the values around the acceptance threshold.
OverallLevels ==
    ScoreGrid \cup {ACCEPTANCE_THRESHOLD - 1, ACCEPTANCE_THRESHOLD, ACCEPTANCE_THRESHOLD + 1}

\* What the reasoning call's reply may hold once parsed: any scores in [0,1]
\* and any decision (VerificationScore bounds each field, nothing relates
\* overall to the components).
ParsedVerifications ==
    {[score |-> [correctness |-> c, completeness |-> p, consistency |-> k, overall |-> o],
      decision |-> d, feedback_for_replanning |-> "", summary |-> "summary"] :
        c \in ScoreGrid, p \in ScoreGrid, k \in ScoreGrid, o \in OverallLevels, d \in Decisions}

\* verify has parsed the reply of its reasoning call.
InitVer ==
    /\ settings = [pev_loop_timeout_seconds |-> pev_loop_timeout_seconds,
                   pev_complex_timeout_seconds |-> pev_complex_timeout_seconds]
    /\ PevIdle
    /\ ExecIdle
    /\ SvcIdle
    /\ PlanIdle
    /\ ClassIdle
    /\ v_pc = "parsed"
    /\ v_parsed \in ParsedVerifications
    /\ v_verified = Null
    /\ v_rederived = Null

\* The rest of verify: the score is made consistent, the decision derived,
\* the result returned.
VerifyReturn ==
    /\ v_pc = "parsed"
    /\ v_verified' = Verify(v_parsed)
    /\ v_pc' = "verified"
    /\ UNCHANGED <<v_parsed, v_rederived>>
    /\ UNCHANGED <<ex_vars, pev_vars, svc_vars, pl_vars, cl_vars>>

\* The same derivation applied to the returned result.
VerifyAgain ==
    /\ v_pc = "verified"
    /\ v_rederived' = Verify(v_verified)
    /\ v_pc' = "rederived"
    /\ UNCHANGED <<v_parsed, v_verified>>
    /\ UNCHANGED <<ex_vars, pev_vars, svc_vars, pl_vars, cl_vars>>

NextVer == VerifyReturn \/ VerifyAgain

SpecVer == InitVer /\ [][NextVer]_vars

\* ------------------------------------------- planner reply parsing (actions)

\* Steps of a reply never hold more than MaxReplySteps items.
MaxReplySteps == 1

\* The steps a reply may hold: any keys of the alternative spellings, tools
\* in any case or unknown, dependencies given as numbers or names.
RawSteps ==
    {n @@ t @@ q @@ d :
        n \in Optional("number", {2}),
        t \in Optional("tool", {"CODE", "Search"}),
        q \in Optional("query", {"step query"}) \cup Optional("description", {"step description"}),
        d \in Optional("dependencies",
                       {[list |-> <<[text |-> "s1"], [int |-> 2], [text |-> "first"]>>],
                        [text |-> "none"]})}

StepLists ==
    {[list |-> l] : l \in UNION {[1..n -> RawSteps] : n \in 0..MaxReplySteps}}
        \cup {[text |-> "none"]}

\* The JSON objects a reply may hold: every key is optional.
ReplyObjects ==
    {q @@ u @@ s @@ st @@ ps :
        q \in Optional("query", {"", USER_QUERY, REPLY_QUERY}),
        u \in Optional("user_query", {USER_QUERY}),
        s \in Optional("summary", {"Plan"}),
        st \in Optional("steps", StepLists),
        ps \in Optional("plan_steps", {[list |-> <<EmptyDict>>]})}

\* create_plan has the reply of its reasoning call: a text with one JSON
\* object, or with none.
InitPlan ==
    /\ settings = [pev_loop_timeout_seconds |-> pev_loop_timeout_seconds,
                   pev_complex_timeout_seconds |-> pev_complex_timeout_seconds]
    /\ PevIdle
    /\ ExecIdle
    /\ SvcIdle
    /\ VerIdle
    /\ ClassIdle
    /\ pl_pc = "reply"
    /\ pl_query = USER_QUERY
    /\ pl_data \in ReplyObjects \cup {Null}
    /\ pl_plan = Null

\* _parse_plan_from_text: the JSON object is normalized into the plan.
ParsePlan ==
    /\ pl_pc = "reply"
    /\ pl_data # Null
    /\ pl_plan' = NormalizePlanSchema(pl_data)
    /\ pl_pc' = "parsed"
    /\ UNCHANGED <<pl_query, pl_data>>
    /\ UNCHANGED <<ex_vars, pev_vars, svc_vars, ver_vars, cl_vars>>

\* _parse_plan_from_text on a reply without "{": ValueError.
ParseRaise ==
    /\ pl_pc = "reply"
    /\ pl_data = Null
    /\ pl_pc' = "raised"
    /\ UNCHANGED <<pl_query, pl_data, pl_plan>>
    /\ UNCHANGED <<ex_vars, pev_vars, svc_vars, ver_vars, cl_vars>>

NextPlan == ParsePlan \/ ParseRaise

SpecPlan == InitPlan /\ [][NextPlan]_vars

\* ---------------------------------------------------- classifier (actions)

\* classify is called with a query.
InitClass ==
    /\ settings = [pev_loop_timeout_seconds |-> pev_loop_timeout_seconds,
                   pev_complex_timeout_seconds |-> pev_complex_timeout_seconds]
    /\ PevIdle
    /\ ExecIdle
    /\ SvcIdle
    /\ VerIdle
    /\ PlanIdle
    /\ cl_pc = "query"
    /\ cl_query \in Queries
    /\ cl_category = NoneValue
    /\ cl_again = NoneValue

ClassifyQuery ==
    /\ cl_pc = "query"
    /\ cl_category' = Classify(cl_query)
    /\ cl_pc' = "classified"
    /\ UNCHANGED <<cl_query, cl_again>>
    /\ UNCHANGED <<ex_vars, pev_vars, svc_vars, ver_vars, pl_vars>>

\* A second call with the same query.
ClassifyAgain ==
    /\ cl_pc = "classified"
    /\ cl_again' = Classify(cl_query)
    /\ cl_pc' = "again"
    /\ UNCHANGED <<cl_query, cl_category>>
    /\ UNCHANGED <<ex_vars, pev_vars, svc_vars, ver_vars, pl_vars>>

NextClass == ClassifyQuery \/ ClassifyAgain

SpecClass == InitClass /\ [][NextClass]_vars

\* ======================================================= verifier properties

VerifyReturned == v_pc \in {"verified", "rederived"}

\* C14: the returned decision is accept exactly when the returned overall
\* score is at least 0.8; below 0.8 a proposed accept becomes retry and a
\* proposed retry or escalate is returned unchanged; deriving again from the
\* returned result changes nothing.
C14_DecisionDerivedFromScore ==
    VerifyReturned =>
        LET overall == v_verified.score.overall
        IN  /\ v_verified.decision = ACCEPT <=> overall >= ACCEPTANCE_THRESHOLD
            /\ (overall < ACCEPTANCE_THRESHOLD /\ v_parsed.decision = ACCEPT) =>
                  v_verified.decision = RETRY
            /\ (overall < ACCEPTANCE_THRESHOLD /\ v_parsed.decision # ACCEPT) =>
                  v_verified.decision = v_parsed.decision
            /\ v_pc = "rederived" => v_rederived = v_verified

C14_Witness ==
    /\ v_pc = "rederived"
    /\ v_parsed.decision = ACCEPT
    /\ v_parsed.score.overall >= ACCEPTANCE_THRESHOLD
    /\ v_verified.decision = RETRY
    /\ v_rederived = v_verified

\* C15: the returned overall score differs from
\* 0.4*correctness + 0.35*completeness + 0.25*consistency by at most 0.01,
\* whatever the raw overall value was.
C15_OverallWithinTolerance ==
    VerifyReturned =>
        Abs(100 * v_verified.score.overall - ExpectedOverall(v_parsed.score)) <= 100

C15_Witness ==
    /\ v_pc = "verified"
    /\ Abs(100 * v_parsed.score.overall - ExpectedOverall(v_parsed.score)) > 100
    /\ ExpectedOverall(v_parsed.score) % 100 # 0
    /\ v_verified.score.overall = Round2(ExpectedOverall(v_parsed.score))

\* ================================================ session cache properties

RunningSlots == {r \in RunSlots : runs[r].phase = "running"}

\* The last operation was a save that inserted a new id into a full cache.
InsertedIntoFullCache ==
    /\ last_op.op = "save"
    /\ Len(last_op.before) = MAX_SESSIONS
    /\ last_op.sid \notin Range(last_op.before)

\* C11: saving a session whose id is not in a cache of MAX_SESSIONS entries
\* evicts exactly the least recently used entry and appends the new one, the
\* other entries keeping their order; a session found by
\* _get_or_create_session is at the most-recently-used position afterwards,
\* and is still in the cache after an insert that follows directly.
C11_InsertEvictsLeastRecentlyUsed ==
    /\ InsertedIntoFullCache =>
          /\ IdsOf(sessions) = Append(Tail(last_op.before), last_op.sid)
          /\ last_op.touched # NoneValue => last_op.touched \in SessionIds(sessions)
    /\ (last_op.op = "lookup" /\ last_op.found) =>
          sessions[Len(sessions)].id = last_op.sid

C11_Witness ==
    /\ InsertedIntoFullCache
    /\ last_op.touched = "1"
    /\ "1" \in SessionIds(sessions)
    /\ "2" \notin SessionIds(sessions)

\* C12: whatever the interleaving of run calls, clear_session and
\* get_session_info, the cache never holds more than MAX_SESSIONS entries.
C12_CacheNeverExceedsCapacity == Len(sessions) <= MAX_SESSIONS

C12_Witness ==
    /\ InsertedIntoFullCache
    /\ Len(sessions) = MAX_SESSIONS
    /\ RunningSlots # {}

OnPevPath == pc # "idle" /\ ~GetConfig(category).skip_pev

Returned == pc = "done"

MaxOverall ==
    LET scores == {history[i].score.overall : i \in DOMAIN history}
    IN  CHOOSE m \in scores : \A x \in scores : x <= m

\* The earliest completed iteration with the highest overall score.
BestIteration ==
    CHOOSE k \in DOMAIN history :
        /\ history[k].score.overall = MaxOverall
        /\ \A j \in DOMAIN history : history[j].score.overall = MaxOverall => k <= j

\* C1: on the PEV path no more than max_iterations iterations are started (one
\* planner call each), and the iterations_used of the response is the number
\* of iterations started.
C1_IterationsWithinCap ==
    OnPevPath =>
        /\ Len(planner_calls) <= Config.max_iterations
        /\ iteration <= Config.max_iterations
        /\ Returned =>
              /\ response.iterations_used = Len(planner_calls)
              /\ response.iterations_used <= Config.max_iterations

C1_Witness ==
    /\ OnPevPath
    /\ Returned
    /\ response.iterations_used = 2
    /\ Len(history) = 2
    /\ history[2].decision = RETRY

\* C2: on the PEV path the response's requires_human_review is true exactly
\* when the best verification's decision is escalate, or its overall score is
\* below the category threshold, or the loop was left for lack of time; a
\* response without the flag has a best score at or above the threshold and a
\* decision other than escalate.
C2_HumanReviewFlag ==
    (OnPevPath /\ Returned) =>
        /\ response.requires_human_review <=>
              \/ best_verification.decision = ESCALATE
              \/ response.verification_score < Config.threshold
              \/ exit_reason \in {"timeout", "insufficient_time"}
        /\ ~response.requires_human_review =>
              /\ response.verification_score >= Config.threshold
              /\ history[BestIteration].decision # ESCALATE

C2_Witness ==
    /\ OnPevPath
    /\ Returned
    /\ response.requires_human_review
    /\ best_verification.decision = ESCALATE
    /\ response.verification_score >= Config.threshold

\* C3: after every completed iteration the tracked best pair is that of the
\* earliest iteration with the highest overall score (so the tracked score
\* never decreases), and the response reports the content, the score and the
\* score details of that iteration.
C3_ResponseReportsBestIteration ==
    (OnPevPath /\ history # <<>>) =>
        /\ best_verification.score = history[BestIteration].score
        /\ best_result.plan_summary = BestIteration
        /\ best_result.final_output = history[BestIteration].final_output
        /\ Returned =>
              /\ response.content = history[BestIteration].final_output
              /\ response.verification_score = MaxOverall
              /\ response.score_details = history[BestIteration].score

C3_Witness ==
    /\ OnPevPath
    /\ Returned
    /\ Len(history) = 2
    /\ history[1].score.overall > history[2].score.overall
    /\ history[1].final_output # history[2].final_output
    /\ response.content = history[1].final_output

\* C4 (as claimed): run never raises to its caller; every run that ends,
\* ends with a response.
C4_RunNeverRaises == pc # "raised"

\* C5 (as claimed): when the loop ends because the iteration cap or the time
\* budget is exhausted, also before the first iteration, the run returns a
\* response with requires_human_review true.
C5_ExhaustionReturnsFlaggedResponse ==
    (/\ OnPevPath
     /\ exit_reason \in {"max_iterations", "timeout", "insufficient_time"}
     /\ pc \in {"done", "raised"}) =>
        /\ pc = "done"
        /\ response.requires_human_review
        /\ response.content = history[BestIteration].final_output

\* ======================================================= executor properties

Launched == UNION Range(waves)

ResultOf(n) == step_results[n]

CompletedSteps == {n \in DOMAIN step_results : step_results[n].status = COMPLETED}

FailedSteps == {n \in DOMAIN step_results : step_results[n].status = FAILED}

DirectDeps(sbn, S) == UNION {IF m \in DOMAIN sbn THEN sbn[m].depends_on ELSE {} : m \in S}

RECURSIVE DepsClosure(_, _)
DepsClosure(sbn, S) ==
    LET T == S \cup DirectDeps(sbn, S)
    IN  IF T = S THEN S ELSE DepsClosure(sbn, T)

\* Every step number step n depends on, directly or transitively.
TransDeps(plan, n) == DepsClosure(StepsByNumber(plan), StepsByNumber(plan)[n].depends_on)

\* The steps of the plan that depend on n, directly or transitively.
Dependents(plan, n) == {m \in PlanStepNumbers(plan) : n \in TransDeps(plan, m)}

\* Step n has a well-founded dependency chain: everything it depends on is a
\* step of the plan and none of it lies on a cycle.
WellFounded(plan, n) ==
    /\ TransDeps(plan, n) \subseteq PlanStepNumbers(plan)
    /\ \A m \in TransDeps(plan, n) \cup {n} : m \notin TransDeps(plan, m)

ValidDag(plan) == \A n \in PlanStepNumbers(plan) : WellFounded(plan, n)

RECURSIVE Level(_, _)
\* The number of predecessors on the longest dependency chain of step n.
Level(plan, n) ==
    LET deps == StepsByNumber(plan)[n].depends_on
    IN  IF deps = {} THEN 0
        ELSE LET ls == {Level(plan, d) : d \in deps}
             IN  1 + (CHOOSE l \in ls : \A x \in ls : x <= l)

Depth(plan) ==
    IF PlanStepNumbers(plan) = {} THEN 0
    ELSE LET ls == {Level(plan, n) : n \in PlanStepNumbers(plan)}
         IN  1 + (CHOOSE l \in ls : \A x \in ls : x <= l)

\* C6 (as claimed): the returned success is true if and only if every step of
\* the plan has a StepResult with status completed.
C6_SuccessIffEveryStepCompleted ==
    ex_pc = "done" =>
        (execution_result.success <=>
            \A n \in PlanStepNumbers(ex_plan) :
                \E i \in DOMAIN execution_result.step_results :
                    /\ execution_result.step_results[i].step_number = n
                    /\ execution_result.step_results[i].status = COMPLETED)

C8_WavesAreDependencyLevels ==
    (/\ ex_pc = "done"
     /\ ValidDag(ex_plan)
     /\ \A n \in DOMAIN step_outcomes : step_outcomes[n] = "ok") =>
        waves = [k \in 1..Depth(ex_plan) |->
                    {n \in PlanStepNumbers(ex_plan) : Level(ex_plan, n) = k - 1}]

C8_Witness ==
    /\ ex_pc = "done"
    /\ ValidDag(ex_plan)
    /\ CompletedSteps = PlanStepNumbers(ex_plan)
    /\ Len(waves) = 2
    /\ Cardinality(waves[1]) = 2
    /\ \E n \in waves[2] : StepsByNumber(ex_plan)[n].depends_on = waves[1]

\* C9: final_output holds the sections of exactly the completed steps in
\* ascending step_number order, and step_results is sorted by step_number,
\* whatever the order in which the tasks of a wave were launched and resolved.
C9_OutputInStepNumberOrder ==
    ex_pc = "done" =>
        LET order == SortedSeq(CompletedSteps)
            res == execution_result.step_results
        IN  /\ execution_result.final_output =
                  [i \in 1..Len(order) |-> Section(step_results[order[i]])]
            /\ \A i, j \in DOMAIN res : i < j => res[i].step_number < res[j].step_number
            /\ {res[i] : i \in DOMAIN res} = {step_results[n] : n \in DOMAIN step_results}

C9_Witness ==
    /\ ex_pc = "done"
    /\ out_of_order
    /\ Len(waves) = 2
    /\ Len(execution_result.final_output) = 3
    /\ FailedSteps = {}

\* C10: a step whose call times out or throws gets a failed StepResult and
\* aborts nothing: every launched step gets its own StepResult, every step
\* with a well-founded dependency chain that does not depend on a failed step
\* is executed, and the call returns a result with success false that still
\* carries the sections of the completed steps.
C10_StepFaultIsLocal ==
    /\ \A n \in DOMAIN step_results :
          /\ step_results[n].step_number = n
          /\ (step_outcomes[n] # "ok") <=> (step_results[n].status = FAILED)
    /\ ex_pc = "done" =>
          /\ Launched = DOMAIN step_results
          /\ \A n \in PlanStepNumbers(ex_plan) :
                (WellFounded(ex_plan, n) /\ TransDeps(ex_plan, n) \cap FailedSteps = {})
                    => n \in DOMAIN step_results
          /\ (\E n \in DOMAIN step_outcomes : step_outcomes[n] # "ok")
                => ~execution_result.success
          /\ {execution_result.final_output[i].step_number :
                 i \in DOMAIN execution_result.final_output} = CompletedSteps

C10_Witness ==
    /\ ex_pc = "done"
    /\ Len(waves) = 2
    /\ \E n \in waves[1] : \E m \in waves[1] : \E k \in waves[2] :
          /\ step_outcomes[n] = "timeout"
          /\ step_results[m].status = COMPLETED
          /\ step_results[k].status = COMPLETED
    /\ ~execution_result.success
    /\ Len(execution_result.final_output) = 2

\* ========================================= orchestrator properties (plans)

\* Some step of the plan depends on itself, directly or through other steps.
HasCycle(plan) == \E n \in PlanStepNumbers(plan) : n \in TransDeps(plan, n)

OnFastPath == pc # "idle" /\ GetConfig(category).skip_pev

\* C16: for a category with skip_pev the run makes exactly one call, to the
\* agent of the category's default tool with the raw query, none to planner,
\* executor or verifier, and returns iterations_used = 1, no verification
\* score and requires_human_review = false.
C16_FastPathSingleDirectCall ==
    OnFastPath =>
        /\ planner_calls = <<>>
        /\ history = <<>>
        /\ \A i \in DOMAIN calls : calls[i].agent \notin {"planner", "executor", "verifier"}
        /\ Returned =>
              /\ calls = <<[agent |-> FastPathAgent(Config.default_tool), input |-> "query"]>>
              /\ response.iterations_used = 1
              /\ response.verification_score = NoneValue
              /\ response.score_details = NoneValue
              /\ ~response.requires_human_review

C16_Witness ==
    /\ OnFastPath
    /\ Returned
    /\ category = "factual"
    /\ calls = <<[agent |-> "researcher", input |-> "query"]>>

\* C17 (as claimed): the planner is never called for an iteration at a moment
\* when the budget left, pev_timeout minus the elapsed time read at the head
\* of the loop, is below the estimate of one iteration.
C17_NoDispatchBelowEstimate ==
    (OnPevPath /\ pc = "plan") =>
        PevTimeout(category, settings) - now >= estimated_iteration_time

\* C18 (as claimed): every plan the loop has executed has at most max_steps
\* steps, max_steps being the category's step cap.
C18_ExecutedPlanWithinMaxSteps ==
    (OnPevPath /\ pc = "verify") => Len(current_plan.steps) <= MaxSteps(category)

\* C19 (as claimed): after an iteration whose plan has a dependency cycle no
\* further iteration is started (when the planner is about to be called for
\* iteration 2 or later, the plan of the previous iteration has no cycle).
C19_CyclicPlanNotRetried ==
    (OnPevPath /\ pc = "plan" /\ iteration > 1) => ~HasCycle(current_plan)

\* C20 (as claimed): after more than one iteration, the plan reported in the
\* response and stored in the session as last_plan is the plan of the
\* iteration whose result and verification are reported and stored.
C20_PlanOfBestIteration ==
    (OnPevPath /\ Returned /\ Len(history) > 1) =>
        /\ response.plan_summary = best_result.plan_summary
        /\ LET saved == sessions[SessionIndex(sessions, session_id)].context
           IN  saved.last_plan = saved.last_result

\* ========================================================= planner properties

NoStepsList(data) ==
    \A key \in {"steps", "plan_steps", "actions", "tasks"} : ~Has(data, key)

\* C21: normalizing a reply object that has no steps list yields a plan with
\* exactly one step: step_number 1, tool research, no dependencies, and the
\* query given to the planner as its query text.
C21_DefaultStepUsesUserQuery ==
    (pl_pc = "parsed" /\ NoStepsList(pl_data)) =>
        /\ Len(pl_plan.steps) = 1
        /\ pl_plan.steps[1].step_number = 1
        /\ pl_plan.steps[1].tool = "research"
        /\ pl_plan.steps[1].depends_on = <<>>
        /\ pl_plan.steps[1].query = pl_query

\* ====================================================== classifier properties

Priority == <<"complex", "code", "architecture", "howto", "factual">>

\* The pattern groups the stripped text of a query matches.
MatchedGroups(query) == {g \in Range(Priority) : MatchesAny(Strip(query), g)}

HighestPriority(groups) ==
    Priority[MinOf({i \in 1..Len(Priority) : Priority[i] \in groups})]

\* C22: classify returns the highest-priority category among the pattern
\* groups the query matches (complex > code > architecture > howto >
\* factual), factual for empty, blank and unmatched queries, and the same
\* category when called again.
C22_ClassifyByPriority ==
    /\ cl_pc \in {"classified", "again"} =>
          /\ (IsBlank(cl_query) \/ MatchedGroups(cl_query) = {}) => cl_category = "factual"
          /\ (~IsBlank(cl_query) /\ MatchedGroups(cl_query) # {}) =>
                cl_category = HighestPriority(MatchedGroups(cl_query))
          /\ "complex" \in MatchedGroups(cl_query) => cl_category = "complex"
    /\ cl_pc = "again" => cl_again = cl_category

\* A query that matches a complex pattern and patterns of other groups.
C22_Witness ==
    /\ cl_pc = "again"
    /\ cl_category = "complex"
    /\ {"complex", "code", "howto"} \subseteq MatchedGroups(cl_query)


\* ================================== orchestrator properties (configuration)

LetsLoopContinue(k) ==
    /\ history[k].decision = RETRY
    /\ history[k].score.overall < Config.threshold
    /\ history[k].score.overall < Config.early_accept_threshold

\* C24: iteration k+1 is started only if the verification of iteration k had
\* decision retry and a score below both thresholds; after an iteration with
\* decision accept or escalate, or a score at or above either threshold, no
\* further planner, executor or verifier call is made.
C24_NextIterationOnlyAfterRetry ==
    OnPevPath =>
        \A k \in 1..Len(history) :
            /\ (k < Len(planner_calls) \/ k < iteration) => LetsLoopContinue(k)
            /\ ~LetsLoopContinue(k) =>
                  /\ k = Len(history)
                  /\ Len(calls) = 3 * k
                  /\ Len(planner_calls) = k
                  /\ pc \in {"build", "done", "raised"}

\* A second iteration started after a retry below the thresholds, and the loop
\* left after the second verification escalated.
C24_Witness ==
    /\ OnPevPath
    /\ Returned
    /\ Len(history) = 2
    /\ LetsLoopContinue(1)
    /\ history[2].decision = ESCALATE
    /\ Len(calls) = 6

\* ============================================== executor properties (waves)

\* C25: a step is launched only after every step number in its depends_on has
\* a StepResult with status completed, recorded by an earlier wave, and no
\* step is launched more than once.
C25_LaunchedAfterDependenciesOnce ==
    /\ \A k \in 1..Len(waves) : \A n \in waves[k] :
          /\ \A dep \in StepsByNumber(ex_plan)[n].depends_on :
                /\ \E j \in 1..(k - 1) : dep \in waves[j]
                /\ dep \in CompletedSteps
          /\ \A j \in 1..Len(waves) : j # k => n \notin waves[j]
    /\ \A i, j \in 1..Len(ready_steps) : i # j => ready_steps[i] # ready_steps[j]

\* A run with a failed step and a timed out step in which a later wave
\* launched a step with dependencies.
C25_Witness ==
    /\ ex_pc = "done"
    /\ Len(waves) >= 2
    /\ \E n \in waves[2] : StepsByNumber(ex_plan)[n].depends_on # {}
    /\ \E n \in FailedSteps : step_outcomes[n] = "timeout"
    /\ Len(ex_plan.steps) > Cardinality(PlanStepNumbers(ex_plan))

\* The steps launched by the waves before the last one.
EarlierWaves == UNION {waves[j] : j \in 1..(Len(waves) - 1)}

\* C26: the wave loop is fork-join.  While a wave is in flight its steps are
\* all the steps that were ready, none of their results is in step_results,
\* and step_results holds exactly the results of the earlier waves, which is
\* what every step of the wave reads; a wave is launched only when every step
\* of the waves before it has its result recorded.
C26_WavesAreForkJoin ==
    /\ \A j \in 1..(Len(waves) - 1) : waves[j] \subseteq DOMAIN step_results
    /\ ex_pc = "gather" =>
          /\ waves[Len(waves)] = Range(ready_steps)
          /\ Range(ready_steps) = ReadyNow
          /\ Range(ready_steps) \subseteq remaining_steps
          /\ DOMAIN step_results \cap Range(ready_steps) = {}
          /\ DOMAIN step_results = EarlierWaves
          /\ DOMAIN wave_results \subseteq Range(ready_steps)
    /\ ex_pc # "gather" => (wave_results = EmptyResults /\ DOMAIN step_results = Launched)

\* A second wave of two steps in flight: one has resolved out of launch
\* order, the other has not, and only the first wave is recorded.
C26_Witness ==
    /\ ex_pc = "gather"
    /\ Len(waves) = 2
    /\ Cardinality(waves[2]) = 2
    /\ Cardinality(DOMAIN wave_results) = 1
    /\ out_of_order
    /\ DOMAIN step_results = waves[1]

\* C27: execute_plan terminates for every plan (cycles, self-dependencies,
\* unknown step numbers, a step number used twice, no steps) when every step
\* call resolves: each pass of the wave loop removes at least one step from
\* remaining_steps or leaves the loop.
C27_ExecutePlanTerminates ==
    /\ <>(ex_pc = "done")
    /\ [][(ex_pc = "gather" /\ ex_pc' = "loop") =>
            (remaining_steps' \subseteq remaining_steps /\ remaining_steps' # remaining_steps)]_vars
    /\ [][(ex_pc = "loop" /\ ex_pc' # "loop") => (ex_pc' = "done" \/ ready_steps' # <<>>)]_vars

\* A finished run of a plan with a step number used twice and a dependency
\* cycle, left through the no-ready exit after a wave was executed.
C27_Witness ==
    /\ ex_pc = "done"
    /\ ex_exit = "no_ready"
    /\ HasCycle(ex_plan)
    /\ Len(ex_plan.steps) > Cardinality(PlanStepNumbers(ex_plan))
    /\ Len(waves) >= 1

\* ===================================== orchestrator properties (call order)

\* The agent of the i-th call of a PEV run.
AgentInTurn(i) ==
    CASE i % 3 = 1 -> "planner"
      [] i % 3 = 2 -> "executor"
      [] i % 3 = 0 -> "verifier"

\* C28: within one PEV run planner, executor and verifier are called in that
\* order in each iteration; iteration 1 calls create_plan, every later
\* iteration k calls refine_plan with the plan of iteration k-1 and with the
\* feedback_for_replanning of iteration k-1's verification or, when that is
\* empty, its summary.
C28_PlanExecuteVerifyInOrder ==
    OnPevPath =>
        /\ \A i \in 1..Len(calls) : calls[i].agent = AgentInTurn(i)
        /\ \A k \in 1..Len(planner_calls) :
              IF k = 1 THEN planner_calls[k].call = "create_plan"
              ELSE /\ planner_calls[k].call = "refine_plan"
                   /\ planner_calls[k].previous_plan = k - 1
                   /\ planner_calls[k].previous_plan = history[k - 1].plan_summary
                   /\ planner_calls[k].feedback =
                         IF history[k - 1].feedback_for_replanning # ""
                         THEN history[k - 1].feedback_for_replanning
                         ELSE history[k - 1].summary

\* A run of two iterations whose first verification gave no feedback for
\* replanning: the refinement was given its summary.
C28_Witness ==
    /\ OnPevPath
    /\ Returned
    /\ Len(calls) = 6
    /\ history[1].feedback_for_replanning = ""
    /\ planner_calls[2].call = "refine_plan"
    /\ planner_calls[2].feedback = history[1].summary

\* ==================================== session cache properties (concurrency)

\* C29: when run calls for one session id overlap, no turn is lost: the
\* overlapping runs report distinct turn counts, and once m runs on the id
\* have completed without eviction or clear, the stored turn_count is m.
C29_OverlappingRunsKeepEveryTurn ==
    /\ \A a, b \in RunningSlots :
          (a # b /\ runs[a].session_id = runs[b].session_id) =>
              runs[a].turn_count # runs[b].turn_count
    /\ \A id \in DOMAIN completed :
          (completed[id] # Tainted /\ completed[id] > 0 /\ id \in SessionIds(sessions)
           /\ \A r \in RunningSlots : runs[r].session_id # id) =>
              sessions[SessionIndex(sessions, id)].turn_count = completed[id]

\* C30: saving a session whose id is already in the cache only replaces that
\* entry: no other session is evicted and the set of cached ids is unchanged,
\* also when the cache holds MAX_SESSIONS entries.
C30_SaveOfCachedIdEvictsNothing ==
    (last_op.op = "save" /\ last_op.sid \in Range(last_op.before)) =>
        /\ SessionIds(sessions) = Range(last_op.before)
        /\ Len(sessions) = Len(last_op.before)

====
